---- MODULE Spec2Model ----
(***************************************************************************)
(* Model of the call/declaration graph builder of basic-parser.py.          *)
(*                                                                         *)
(* The repository on disk and the answers of the symbol provider are the   *)
(* environment: the repository (files and their document-symbol trees) is  *)
(* fixed when the build starts, the reference locations the provider       *)
(* returns are chosen query by query.  The build is the sequence of steps   *)
(* of main() -> build_code_graph_with_multilspy(), one action per step.    *)
(*                                                                         *)
(* Encodings.  A path is the sequence of its components relative to the    *)
(* repository root, so os.path.basename is the last component and          *)
(* relpath/join/normpath are the identity on such paths.  The node id      *)
(* f"{name}::{basename}" is the pair <<name, basename>>, which is what the  *)
(* string is as long as names hold no "::".  Lines are the provider's      *)
(* zero-based lines; a node's "line" is start + 1 as in the source.        *)
(***************************************************************************)
EXTENDS Integers, Sequences, FiniteSets, TLC

\* ---------------------------------------------------------------- bounds
MaxLine == 1     \* provider lines range over 0..MaxLine
MaxRefs == 2     \* references resolved per references query
MaxCalls == 2    \* run_parser_on_directory calls in one process

Names == {"a", "b"}
Kinds == {2, 5, 6, 7, 12, 13}    \* 13 (Variable) stands for every other kind

None == "<None>"                 \* Python's None (parent_class)
NoRef == [relativePath |-> <<>>, line |-> 0]

Ranges == {r \in (0..MaxLine) \X (0..MaxLine) : r[1] <= r[2]}

\* The symbols with kinds drawn from K, ranges from R and children from C.  A
\* symbol is [name, kind, start, end, children] (range.start.line,
\* range.end.line and the "children" list of the provider).
Symbols(K, R, C) ==
    {[name |-> nm, kind |-> k, start |-> r[1], end |-> r[2], children |-> c] :
        nm \in Names, k \in K, r \in R, c \in C}

\* Forests of document symbols with exactly n symbols: the first symbol holds
\* j - 1 descendants, for j from..n, and the symbols after it the other n - j.
RECURSIVE ForestsOfSize(_, _, _), ForestsFrom(_, _, _, _)
ForestsFrom(from, n, K, R) ==
    IF from > n THEN {}
    ELSE {<<sym>> \o rest :
            sym \in Symbols(K, R, ForestsOfSize(from - 1, K, R)),
            rest \in ForestsOfSize(n - from, K, R)}
         \cup ForestsFrom(from + 1, n, K, R)

ForestsOfSize(n, K, R) == IF n = 0 THEN {<<>>} ELSE ForestsFrom(1, n, K, R)

\* Renaming the symbols does not change what the builder does: the first
\* symbol of a forest is named "a".
Canonical(forest) == forest = <<>> \/ forest[1].name = "a"

Forests(n, K, R) == {s \in ForestsOfSize(n, K, R) : Canonical(s)}

\* ------------------------------------------------------------ file names
Basename(path) == path[Len(path)]

\* file.endswith('.py') and not file.startswith('__'), over the file names
\* of the model
EndsWithPy(file) ==
    file \in {"m.py", "n.py", "__init__.py", "operations.py", "main.py", "x.py"}

StartsWithDunder(file) == file \in {"__init__.py"}

\* Mutant: the dunder test is forgotten.
IsPythonFile_NoDunderTest(file) == EndsWithPy(file)

IsPythonFile(file) == EndsWithPy(file) /\ ~StartsWithDunder(file)

LibraryPath == <<"lib", "x.py">>     \* a file outside the repository walk

File(path, symbols) == [path |-> path, symbols |-> symbols]

\* Files the walk filters out; they are never queried.
SkippedFiles == {File(<<"p", "__init__.py">>, <<>>), File(<<"p", "notes.txt">>, <<>>)}

\* Chains of three symbols spanning the whole file: a class, under it a
\* symbol that is no class, under that a symbol of any kind.
Chains ==
    LET sym(nm, k, c) == [name |-> nm, kind |-> k, start |-> 0, end |-> MaxLine,
                          children |-> c]
    IN {<<sym("a", 5, <<sym(n2, k2, <<sym(n3, k3, <<>>)>>)>>)>> :
          n2 \in Names, k2 \in Kinds \ {5}, n3 \in Names, k3 \in Kinds}

\* Repositories with at most one source file, which holds at most two symbols
\* or a chain of three.
OneFileRepos ==
    {<<>>}
    \cup {<<f>> : f \in SkippedFiles}
    \cup {<<File(<<"p", "m.py">>, s)>> : s \in Chains}
    \cup {<<File(<<"p", "m.py">>, s)>> :
            s \in Forests(0, Kinds, Ranges) \cup Forests(1, Kinds, Ranges)
                  \cup Forests(2, Kinds, Ranges)}
    \cup {<<f, File(<<"p", "m.py">>, s)>> :
            f \in SkippedFiles, s \in Forests(1, Kinds, Ranges)}

\* Repositories with two source files of at most one symbol each; the files
\* share their basename (in different directories) or not.
TwoFileRepos ==
    {<<File(<<"p", "m.py">>, s), File(q, t)>> :
        q \in {<<"q", "m.py">>, <<"p", "n.py">>},
        s \in Forests(0, Kinds, Ranges) \cup Forests(1, Kinds, Ranges),
        t \in ForestsOfSize(0, Kinds, Ranges) \cup ForestsOfSize(1, Kinds, Ranges)}

\* The repositories of the Calculator scenario: operations.py holds Class
\* Calculator (lines 10-30, zero-based 9..29) containing Method add (line 12,
\* zero-based 11), nested under it or listed flat after it; main.py holds
\* Function main (lines 1-8, zero-based 0..7).
ScenarioRepos ==
    LET add == [name |-> "add", kind |-> 6, start |-> 11, end |-> 13, children |-> <<>>]
        calc(c) == [name |-> "Calculator", kind |-> 5, start |-> 9, end |-> 29,
                    children |-> c]
        main == [name |-> "main", kind |-> 12, start |-> 0, end |-> 7, children |-> <<>>]
        ops == {File(<<"operations.py">>, <<calc(<<add>>)>>),
                File(<<"operations.py">>, <<calc(<<>>), add>>)}
    IN {<<o, File(<<"main.py">>, <<main>>)>> : o \in ops}
       \cup {<<File(<<"main.py">>, <<main>>), o>> : o \in ops}

\* Repositories of two files sharing their basename: a class or a function in
\* the first, n classes, methods or functions in the second.
CollisionRepos(n) ==
    {<<File(<<"p", "m.py">>, s), File(<<"q", "m.py">>, t)>> :
        s \in Forests(1, {5, 12}, Ranges), t \in ForestsOfSize(n, {5, 6, 12}, Ranges)}

\* Repositories of one file holding n symbols, classes and methods only.
MemberRepos(n) ==
    {<<File(<<"p", "m.py">>, s)>> : s \in Forests(n, {5, 6}, Ranges)}

\* Repositories of one file holding a chain of three symbols spanning the
\* whole file: a class or a function, under it a symbol of any kind, under
\* that a method or a property.
NestingRepos ==
    LET sym(nm, k, c) == [name |-> nm, kind |-> k, start |-> 0, end |-> MaxLine,
                          children |-> c]
    IN {<<File(<<"p", "m.py">>, <<sym("a", k1, <<sym(n2, k2, <<sym(n3, k3, <<>>)>>)>>)>>)>> :
          k1 \in {5, 12}, n2 \in Names, k2 \in Kinds, n3 \in Names, k3 \in {6, 7}}

\* ------------------------------------------------- get_functions_from_file
NodeId(name, file) == <<name, file>>

Edge(from_id, to_id) == [from |-> from_id, to |-> to_id]

\* The dict appended to all_classes / all_methods / ... for one symbol.
Info(sym, kind, file_path, parent_class) ==
    [name |-> sym.name, kind |-> kind, file_path |-> file_path,
     line |-> sym.start + 1, file |-> Basename(file_path),
     start |-> sym.start, end |-> sym.end, parent_class |-> parent_class]

\* The dict appended to nodes for one symbol.
Node(sym, kind, file_path) ==
    [id |-> NodeId(sym.name, Basename(file_path)), name |-> sym.name, kind |-> kind,
     file |-> Basename(file_path), line |-> sym.start + 1]

EmptyLists ==
    [functions |-> <<>>, nodes |-> <<>>, classes |-> <<>>, methods |-> <<>>,
     properties |-> <<>>, imports |-> <<>>,
     method_class_edges |-> <<>>, property_class_edges |-> <<>>]

\* if parent_class: append the tentative class -> member edge
TentativeEdges(edges, sym, parent_class, file_path) ==
    IF parent_class # None
    THEN Append(edges, Edge(NodeId(parent_class, Basename(file_path)),
                            NodeId(sym.name, Basename(file_path))))
    ELSE edges

\* Mutant: a class nested in a class keeps the context of the outer class.
ChildContext_OutermostWins(sym, parent_class) ==
    IF sym.kind = 5 /\ parent_class = None THEN sym.name ELSE parent_class

\* The parent_class passed to the children of sym.
ChildContext(sym, parent_class) ==
    IF sym.kind = 5 THEN sym.name ELSE parent_class

\* The lists after the entity (if any) of sym itself is recorded.
RecordSymbol(sym, parent_class, file_path, acc) ==
    CASE sym.kind = 5 ->
           [acc EXCEPT !.classes = Append(@, Info(sym, "CLASS", file_path, None)),
                       !.nodes = Append(@, Node(sym, "CLASS", file_path))]
      [] sym.kind = 2 ->
           [acc EXCEPT !.imports = Append(@, Info(sym, "IMPORT", file_path, None)),
                       !.nodes = Append(@, Node(sym, "IMPORT", file_path))]
      [] sym.kind = 6 ->
           [acc EXCEPT !.methods = Append(@, Info(sym, "METHOD", file_path, parent_class)),
                       !.nodes = Append(@, Node(sym, "METHOD", file_path)),
                       !.method_class_edges =
                           TentativeEdges(@, sym, parent_class, file_path)]
      [] sym.kind = 7 ->
           [acc EXCEPT !.properties = Append(@, Info(sym, "PROPERTY", file_path, parent_class)),
                       !.nodes = Append(@, Node(sym, "PROPERTY", file_path)),
                       !.property_class_edges =
                           TentativeEdges(@, sym, parent_class, file_path)]
      [] sym.kind = 12 ->
           [acc EXCEPT !.functions = Append(@, Info(sym, "FUNCTION", file_path, None)),
                       !.nodes = Append(@, Node(sym, "FUNCTION", file_path))]
      [] OTHER -> acc

\* Mutant: the final else branch (other kinds) does not descend.
ChildrenOf_SkipOtherKinds(sym) ==
    IF sym.kind \in {2, 5, 6, 7, 12} THEN sym.children ELSE <<>>

\* The children of sym the traversal descends into: every branch, the final
\* else included, loops over sym["children"].
ChildrenOf(sym) == sym.children

RECURSIVE process_symbol(_, _, _, _)
RECURSIVE process_symbols(_, _, _, _)
process_symbols(syms, parent_class, file_path, acc) ==
    IF syms = <<>> THEN acc
    ELSE process_symbols(Tail(syms), parent_class, file_path,
                         process_symbol(Head(syms), parent_class, file_path, acc))

process_symbol(sym, parent_class, file_path, acc) ==
    process_symbols(ChildrenOf(sym), ChildContext(sym, parent_class), file_path,
                    RecordSymbol(sym, parent_class, file_path, acc))

\* class range contains the member's start line, same file
InClassRange(member, class_info) ==
    /\ member.file_path = class_info.file_path
    /\ class_info.start <= member.start
    /\ member.start <= class_info.end

\* Index of the first class of `classes` whose range contains member, 0 if none.
RECURSIVE FirstClassFrom(_, _, _)
FirstClassFrom(member, classes, k) ==
    IF k > Len(classes) THEN 0
    ELSE IF InClassRange(member, classes[k]) THEN k
    ELSE FirstClassFrom(member, classes, k + 1)

\* Mutant: no break, the last containing class wins.
RECURSIVE LastClassFrom(_, _, _)
LastClassFrom(member, classes, k) ==
    IF k = 0 THEN 0
    ELSE IF InClassRange(member, classes[k]) THEN k
    ELSE LastClassFrom(member, classes, k - 1)

FirstClass_LastWins(member, classes) == LastClassFrom(member, classes, Len(classes))

FirstClass(member, classes) == FirstClassFrom(member, classes, 1)

\* if edge not in edges: edges.append(edge)
AppendNew(edges, edge) ==
    IF \E i \in 1..Len(edges) : edges[i] = edge THEN edges ELSE Append(edges, edge)

\* The range-containment loops after the traversal (one per member list).
RECURSIVE Reconcile(_, _, _, _)
Reconcile(members, k, classes, edges) ==
    IF k > Len(members) THEN edges
    ELSE LET c == FirstClass(members[k], classes)
         IN Reconcile(members, k + 1, classes,
                      IF c = 0 THEN edges
                      ELSE AppendNew(edges,
                                     Edge(NodeId(classes[c].name, classes[c].file),
                                          NodeId(members[k].name, members[k].file))))

\* The tuple get_functions_from_file returns for a file and the symbols the
\* provider reported for it.
get_functions_from_file(file_path, symbols) ==
    IF symbols = <<>> THEN EmptyLists
    ELSE LET t == process_symbols(symbols, None, file_path, EmptyLists)
         IN [t EXCEPT !.method_class_edges = Reconcile(t.methods, 1, t.classes, @),
                      !.property_class_edges = Reconcile(t.properties, 1, t.classes, @)]

\* ------------------------------------------------------ find_function_edges
\* Index in `entities` of the first one of file ref_path whose range contains
\* ref_line, 0 for Python's None.
RECURSIVE FindCallerFrom(_, _, _, _)
FindCallerFrom(entities, ref_path, ref_line, k) ==
    IF k > Len(entities) THEN 0
    ELSE IF /\ entities[k].file_path = ref_path
            /\ entities[k].start <= ref_line
            /\ ref_line <= entities[k].end
         THEN k
         ELSE FindCallerFrom(entities, ref_path, ref_line, k + 1)

\* Mutant: the first line of a function is not part of its range.
find_caller_function_AfterStart(functions, ref_path, ref_line) ==
    FindCallerFrom(functions, ref_path, ref_line - 1, 1)

find_caller_function(functions, ref_path, ref_line) ==
    FindCallerFrom(functions, ref_path, ref_line, 1)

find_caller_method(methods, ref_path, ref_line) ==
    FindCallerFrom(methods, ref_path, ref_line, 1)

find_caller_property(properties, ref_path, ref_line) ==
    FindCallerFrom(properties, ref_path, ref_line, 1)

\* Mutant: the imports are left out of the callee search.
AllCallees_NoImports(functions, methods, properties, imports) ==
    functions \o methods \o properties

\* all_callees = all_functions + all_methods + all_properties + all_imports
AllCallees(functions, methods, properties, imports) ==
    functions \o methods \o properties \o imports

\* Mutant: the name comparison is dropped.
IsOtherCaller_Always(caller, func) == TRUE

\* caller["name"] != func["name"]
IsOtherCaller(caller, func) == caller.name # func.name

\* Mutant: the callee id is built with the caller's file.
CallEdge_CallerFile(caller, func) ==
    Edge(NodeId(caller.name, caller.file), NodeId(func.name, caller.file))

CallEdge(caller, func) ==
    Edge(NodeId(caller.name, caller.file), NodeId(func.name, func.file))

\* Mutant: the edge is appended without the membership test.
RecordCallEdge_NoTest(edges, edge) == Append(edges, edge)

\* edges.append(edge) guarded by `if edge not in edges`
RecordCallEdge(edges, edge) == AppendNew(edges, edge)

\* The body of `for ref in refs_result`: the call edges after one reference
\* to the callee func is resolved.
ResolveReference(func, r, edges, functions, methods, properties) ==
    LET cf == find_caller_function(functions, r.relativePath, r.line)
        cm == find_caller_method(methods, r.relativePath, r.line)
        cp == find_caller_property(properties, r.relativePath, r.line)
    IN IF cf # 0 /\ IsOtherCaller(functions[cf], func)
       THEN RecordCallEdge(edges, CallEdge(functions[cf], func))
       ELSE IF cm # 0 /\ IsOtherCaller(methods[cm], func)
       THEN RecordCallEdge(edges, CallEdge(methods[cm], func))
       ELSE IF cp # 0 /\ IsOtherCaller(properties[cp], func)
       THEN RecordCallEdge(edges, CallEdge(properties[cp], func))
       ELSE edges

\* ----------------------------------- reclassify_isolated_classes_as_imports
\* Mutant: only the targets of the edges are collected.
EdgeNodeIds_TargetsOnly(edges) == {edges[i].to : i \in 1..Len(edges)}

EdgeNodeIds(edges) ==
    {edges[i].from : i \in 1..Len(edges)} \cup {edges[i].to : i \in 1..Len(edges)}

reclassify_isolated_classes_as_imports(node_list, calls, declarations) ==
    [i \in 1..Len(node_list) |->
        IF node_list[i].kind = "CLASS"
           /\ node_list[i].id \notin EdgeNodeIds(calls \o declarations)
        THEN [node_list[i] EXCEPT !.kind = "IMPORT"]
        ELSE node_list[i]]

create_call_graph(node_list, calls) ==
    [nodes |-> node_list, edges |-> calls]

create_declaration_graph(node_list, mclass_edges, pclass_edges) ==
    [nodes |-> node_list, edges |-> mclass_edges \o pclass_edges]

\* Mutant: the declaration edges are put before the call edges.
CombinedGraph_DeclarationsFirst(node_list, calls, mclass_edges, pclass_edges) ==
    [nodes |-> node_list, edges |-> mclass_edges \o pclass_edges \o calls]

\* graph["edges"] = call_edges + method_class_edges + property_class_edges
CombinedGraph(node_list, calls, mclass_edges, pclass_edges) ==
    [nodes |-> node_list, edges |-> calls \o mclass_edges \o pclass_edges]

\* ------------------------------------------------------------------ files
\* The files the build writes (files.py), as path components below the
\* working directory.
GRAPH_JSON_FILE == <<"artifacts", "graph_data.json">>
CALL_GRAPH_JSON_FILE == <<"artifacts", "call_graph.json">>
DECLARATION_GRAPH_JSON_FILE == <<"artifacts", "declaration_graph.json">>

\* The file each save of the build writes.
SavedFile ==
    [call |-> CALL_GRAPH_JSON_FILE,
     declaration |-> DECLARATION_GRAPH_JSON_FILE,
     combined |-> GRAPH_JSON_FILE]

\* required_files of CodeGraphDescriber._artifacts_exist
RequiredFiles == {"combined_graph.json", "call_graph.json", "declaration_graph.json"}

\* The directories a describer is given as artifacts_path: the one the build
\* writes to, and the default of the constructor.
ArtifactsPaths == {<<"artifacts">>, <<"react-graph-viewer", "public", "artifacts">>}

\* What a graph file that no build of this process wrote may hold when it is
\* read: it was put there by an earlier run or by a deployment step.
StaleNode(name) ==
    [id |-> <<name, "old.py">>, name |-> name, kind |-> "FUNCTION", file |-> "old.py",
     line |-> 1]

StaleGraphs ==
    {[nodes |-> <<StaleNode("old"), StaleNode("main")>>,
      edges |-> <<Edge(<<"main", "old.py">>, <<"old", "old.py">>)>>],
     [nodes |-> <<StaleNode("main")>>, edges |-> <<>>]}

\* The empty dict self.nodes starts as.
NoNodes == [id \in {} |-> {}]

\* NodeInfo(id, name, kind, file, line): __post_init__ gives it empty
\* dependencies and dependents.
NodeInfo(node_data) ==
    [id |-> node_data.id, name |-> node_data.name, kind |-> node_data.kind,
     file |-> node_data.file, line |-> node_data.line,
     dependencies |-> <<>>, dependents |-> <<>>]

\* The loop `self.nodes[node.id] = node` of _load_graph_data over the nodes
\* of the file: an entry is added or replaced, none is removed.
LoadNodes(dict, node_list) ==
    LET ids == {node_list[i].id : i \in 1..Len(node_list)}
        Last(id) == node_list[CHOOSE i \in 1..Len(node_list) :
                                 /\ node_list[i].id = id
                                 /\ \A j \in 1..Len(node_list) :
                                       node_list[j].id = id => j <= i]
    IN [id \in DOMAIN dict \cup ids |->
          IF id \in ids THEN NodeInfo(Last(id)) ELSE dict[id]]

\* _build_dependency_graph: the edges from the k-th on are appended to the
\* dependencies of their source and the dependents of their target, if both
\* are nodes.
RECURSIVE build_dependency_graph(_, _, _)
build_dependency_graph(dict, edge_list, k) ==
    IF k > Len(edge_list) THEN dict
    ELSE LET e == edge_list[k]
             appended ==
                 IF e.from \in DOMAIN dict /\ e.to \in DOMAIN dict
                 THEN LET d1 == [dict EXCEPT ![e.from].dependencies = Append(@, e.to)]
                      IN [d1 EXCEPT ![e.to].dependents = Append(@, e.from)]
                 ELSE dict
         IN build_dependency_graph(appended, edge_list, k + 1)

\* os.getcwd() of the process
Cwd == <<"/", "work">>

\* os.path.abspath: an absolute path is kept, a relative one is joined to the
\* working directory.
abspath(path) == IF path # <<>> /\ path[1] = "/" THEN path ELSE Cwd \o path

\* The directories run_parser_on_directory is called with.
Directories == {<<"repo">>, <<"/", "srv", "repo">>}

\* ------------------------------------------------------------------ state
VARIABLES
    repo,                  \* the files under the root, in os.walk order, with their symbols
    pc,                    \* position of main() / build_code_graph_with_multilspy()
    exc,                   \* the exception main() ended with ("none" if none)
    lsp,                   \* language server: "none", "created", "started", "stopped"
    alarm,                 \* SIGALRM timer of main(): "off", "armed", "expired" (it went off)
    python_files,          \* find_python_files(repository_root_path)
    file_idx,              \* position of `for file_path in python_files`
    all_functions, all_classes, all_methods, all_properties, all_imports,
    method_class_edges, property_class_edges,
    nodes,                 \* graph["nodes"]
    call_edges,            \* `edges` of find_function_edges, then call_edges
    callee_idx,            \* position of `for i, func in enumerate(all_callees)`
    ref,                   \* the reference of refs_result resolved last, NoRef if none
    ref_count,             \* references of the current refs_result resolved so far
    doc_queries,           \* request_document_symbols calls issued
    ref_queries,           \* request_references calls issued
    ref_errors,            \* request_references calls that ended in the except branch
    disk,                  \* the three graph JSON files (<<>>: not written)
    result,                \* what main() returned (<<>>: nothing)
    describer,             \* position of CodeGraphDescriber.__init__ ("none": no describer)
    artifacts_path,        \* self.artifacts_path
    auto_parse,            \* the auto_parse argument
    stale,                 \* files of artifacts_path left by an earlier run
    loaded,                \* graph_data of _load_graph_data (<<>>: nothing loaded)
    self_nodes,            \* self.nodes of the describer: id -> NodeInfo
    self_edges,            \* self.edges of the describer
    repository_root_path,  \* the module-level repository_root_path of basic-parser.py
    directory_path,        \* argument of the running run_parser_on_directory (<<>>: none)
    old_path,              \* old_path of the running run_parser_on_directory (<<>>: none)
    calls,                 \* run_parser_on_directory calls made so far
    jedi_init,             \* JediServer.__init__: "original" or "patched"
    analyzer,              \* position of GitHubCodeAnalyzer.analyze_repository ("none": no analyzer)
    stages,                \* results['stages']
    errors,                \* results['errors']
    temp_parser            \* temp_parser.py exists

lists == <<python_files, file_idx, all_functions, all_classes, all_methods,
           all_properties, all_imports, method_class_edges, property_class_edges,
           nodes, call_edges, callee_idx, ref, ref_count>>

describer_vars == <<describer, artifacts_path, auto_parse, stale, loaded, self_nodes,
                    self_edges>>

parser_vars == <<repository_root_path, directory_path, old_path, calls, jedi_init>>

analyzer_vars == <<analyzer, stages, errors, temp_parser>>

vars == <<repo, pc, exc, lsp, alarm, lists, doc_queries, ref_queries, ref_errors,
          disk, result, describer_vars, parser_vars, analyzer_vars>>

all_callees == AllCallees(all_functions, all_methods, all_properties, all_imports)

declaration_edges == method_class_edges \o property_class_edges

\* The locals of the build are gone once it returned or raised.
DropLocals ==
    /\ python_files' = <<>>
    /\ file_idx' = 0
    /\ all_functions' = <<>>
    /\ all_classes' = <<>>
    /\ all_methods' = <<>>
    /\ all_properties' = <<>>
    /\ all_imports' = <<>>
    /\ method_class_edges' = <<>>
    /\ property_class_edges' = <<>>
    /\ nodes' = <<>>
    /\ call_edges' = <<>>
    /\ callee_idx' = 0
    /\ ref' = NoRef
    /\ ref_count' = 0

InitState ==
    /\ pc = "init"
    /\ exc = "none"
    /\ lsp = "none"
    /\ alarm = "off"
    /\ python_files = <<>>
    /\ file_idx = 0
    /\ all_functions = <<>>
    /\ all_classes = <<>>
    /\ all_methods = <<>>
    /\ all_properties = <<>>
    /\ all_imports = <<>>
    /\ method_class_edges = <<>>
    /\ property_class_edges = <<>>
    /\ nodes = <<>>
    /\ call_edges = <<>>
    /\ callee_idx = 0
    /\ ref = NoRef
    /\ ref_count = 0
    /\ doc_queries = 0
    /\ ref_queries = 0
    /\ ref_errors = 0
    /\ disk = [call |-> <<>>, declaration |-> <<>>, combined |-> <<>>]
    /\ result = <<>>
    /\ repository_root_path = abspath(<<"test-project">>)
    /\ directory_path = <<>>
    /\ old_path = <<>>
    /\ calls = 0
    /\ jedi_init = "original"

\* No analyze_repository is running.
NoAnalyzer ==
    /\ analyzer = "none"
    /\ stages = [clone |-> FALSE, parse |-> FALSE, visualize |-> FALSE, describe |-> FALSE]
    /\ errors = <<>>
    /\ temp_parser = FALSE

\* The build is run on its own (python basic-parser.py), without a describer.
NoDescriber ==
    /\ describer = "none"
    /\ artifacts_path = <<>>
    /\ auto_parse = FALSE
    /\ stale = {}
    /\ loaded = <<>>
    /\ self_nodes = NoNodes
    /\ self_edges = <<>>

Init ==
    /\ repo \in OneFileRepos \cup TwoFileRepos
    /\ InitState
    /\ NoDescriber
    /\ NoAnalyzer

InitScenario ==
    /\ repo \in ScenarioRepos
    /\ InitState
    /\ NoDescriber
    /\ NoAnalyzer

InitCollision ==
    /\ repo \in CollisionRepos(2)
    /\ InitState
    /\ NoDescriber
    /\ NoAnalyzer

InitMembers ==
    /\ repo \in MemberRepos(3)
    /\ InitState
    /\ NoDescriber
    /\ NoAnalyzer

InitNesting ==
    /\ repo \in NestingRepos
    /\ InitState
    /\ NoDescriber
    /\ NoAnalyzer

\* CodeGraphDescriber(artifacts_path, repository_path, auto_parse) is being
\* constructed; any of the required files may be there already.
InitDescriber ==
    /\ repo \in ScenarioRepos
    /\ InitState
    /\ describer = "init"
    /\ artifacts_path \in ArtifactsPaths
    /\ auto_parse \in BOOLEAN
    /\ stale \in SUBSET RequiredFiles
    /\ loaded = <<>>
    /\ self_nodes = NoNodes
    /\ self_edges = <<>>
    /\ NoAnalyzer

\* Mutant: the server is started without a scope, an exception leaves it
\* running.
Raise_ServerLeftRunning(cause) ==
    /\ pc' = "raised"
    /\ exc' = cause
    /\ lsp' = lsp
    /\ DropLocals
    /\ UNCHANGED <<analyzer_vars, describer_vars, repository_root_path, directory_path,
                   old_path, calls, repo, ref_queries, ref_errors, disk, result>>

\* An exception leaves build_code_graph_with_multilspy and main: `async with
\* lsp.start_server()` stops a started server on the way out, nothing is
\* returned.
Raise(cause) ==
    /\ pc' = "raised"
    /\ exc' = cause
    /\ lsp' = IF lsp = "started" THEN "stopped" ELSE lsp
    /\ DropLocals
    /\ UNCHANGED <<analyzer_vars, describer_vars, repository_root_path, directory_path,
                   old_path, calls, repo, ref_queries, ref_errors, disk, result>>

\* ----------------------------------------------------------------- actions
\* main(): signal.alarm(180), then the build is awaited.  It is run by
\* `python basic-parser.py` (also as the analyzer's subprocess) or by
\* run_parser_on_directory.
Main ==
    /\ \/ pc = "init" /\ describer = "none" /\ analyzer \in {"none", "subprocess"}
       \/ pc = "parser_called"
    /\ pc' = "setup"
    /\ alarm' = "armed"
    /\ UNCHANGED <<analyzer_vars, parser_vars, describer_vars, repo, exc, lsp, lists, doc_queries, ref_queries, ref_errors, disk, result>>

\* lsp = setup_lsp(repository_root_path)
SetupLsp ==
    /\ pc = "setup"
    /\ pc' = "start"
    /\ lsp' = "created"
    /\ UNCHANGED <<analyzer_vars, parser_vars, describer_vars, repo, exc, alarm, lists, doc_queries, ref_queries, ref_errors, disk, result>>

\* setup_lsp raises: before JediServer.__init__ is replaced, or in
\* LanguageServer.create after it was and before the line that restores it.
SetupLspRaises ==
    /\ pc = "setup"
    /\ Raise("setup_lsp")
    /\ \E patched \in BOOLEAN :
          jedi_init' = IF patched THEN "patched" ELSE jedi_init
    /\ UNCHANGED <<alarm, doc_queries>>

\* async with lsp.start_server():
StartServer ==
    /\ pc = "start"
    /\ pc' = "find"
    /\ lsp' = "started"
    /\ UNCHANGED <<analyzer_vars, parser_vars, describer_vars, repo, exc, alarm, lists, doc_queries, ref_queries, ref_errors, disk, result>>

\* Mutant: the failure to start is swallowed and the build goes on.
StartServerRaises_Swallowed ==
    /\ pc = "start"
    /\ pc' = "find"
    /\ exc' = "start_server"
    /\ UNCHANGED <<analyzer_vars, parser_vars, describer_vars, repo, lsp, alarm, lists, doc_queries, ref_queries, ref_errors, disk, result>>

StartServerRaises ==
    /\ pc = "start"
    /\ Raise("start_server")
    /\ UNCHANGED <<alarm, doc_queries, jedi_init>>

\* The position after `for func in all_callees` reached index i.
AfterCallee(i, callees) == IF i > Len(callees) THEN "reclassify" ELSE "stepB"

\* The position after `for file_path in python_files` reached index i; the
\* callee loop starts (and may end at once) when the files are exhausted.
AfterFile(i, files, callees) ==
    IF i > Len(files) THEN AfterCallee(1, callees) ELSE "stepA"

find_python_files(files) ==
    LET IsSource(f) == IsPythonFile(Basename(f.path))
        kept == SelectSeq(files, IsSource)
    IN [i \in 1..Len(kept) |-> kept[i].path]

\* python_files = find_python_files(repository_root_path)
FindPythonFiles ==
    /\ pc = "find"
    /\ python_files' = find_python_files(repo)
    /\ file_idx' = 1
    /\ pc' = AfterFile(1, python_files', <<>>)
    /\ callee_idx' = 1
    /\ UNCHANGED <<analyzer_vars, parser_vars, describer_vars, repo, exc, lsp, alarm, all_functions, all_classes, all_methods,
                   all_properties, all_imports, method_class_edges,
                   property_class_edges, nodes, call_edges, ref, ref_count,
                   doc_queries, ref_queries, ref_errors, disk, result>>

\* The symbols the provider reports for a file of the repository.
request_document_symbols(file_path) ==
    LET i == CHOOSE j \in 1..Len(repo) : repo[j].path = file_path
    IN repo[i].symbols

\* One iteration of STEP A: get_functions_from_file and the nine extends.
GetFunctionsFromFile ==
    /\ pc = "stepA"
    /\ file_idx <= Len(python_files)
    /\ LET file_path == python_files[file_idx]
           got == get_functions_from_file(file_path, request_document_symbols(file_path))
       IN /\ all_functions' = all_functions \o got.functions
          /\ all_classes' = all_classes \o got.classes
          /\ all_methods' = all_methods \o got.methods
          /\ all_properties' = all_properties \o got.properties
          /\ all_imports' = all_imports \o got.imports
          /\ method_class_edges' = method_class_edges \o got.method_class_edges
          /\ property_class_edges' = property_class_edges \o got.property_class_edges
          /\ nodes' = nodes \o got.nodes
    /\ doc_queries' = doc_queries + 1
    /\ file_idx' = file_idx + 1
    /\ pc' = AfterFile(file_idx', python_files,
                       AllCallees(all_functions', all_methods', all_properties',
                                  all_imports'))
    /\ UNCHANGED <<analyzer_vars, parser_vars, describer_vars, repo, exc, lsp, alarm, python_files, call_edges, callee_idx, ref,
                   ref_count, ref_queries, ref_errors, disk, result>>

\* lsp.open_file or request_document_symbols raises: nothing catches it.
DocumentSymbolsRaises ==
    /\ pc = "stepA"
    /\ file_idx <= Len(python_files)
    /\ doc_queries' = doc_queries + 1
    /\ Raise("document_symbols")
    /\ UNCHANGED <<alarm, jedi_init>>

\* The locations a reference can be reported at: a line of a file of the
\* repository or of a file outside it.
MaxOf(S) == CHOOSE x \in S : \A y \in S : y <= x

RefLocations ==
    LET ends == {MaxLine} \cup {all_callees[i].end : i \in 1..Len(all_callees)}
                          \cup {all_classes[i].end : i \in 1..Len(all_classes)}
    IN [relativePath : {repo[i].path : i \in 1..Len(repo)}, line : 0..MaxOf(ends)]
       \cup {[relativePath |-> LibraryPath, line |-> 0]}

\* refs_result = await lsp.request_references(...) returned a non-empty list
RequestReferences ==
    /\ pc = "stepB"
    /\ callee_idx <= Len(all_callees)
    /\ pc' = "refs"
    /\ ref' = NoRef
    /\ ref_count' = 0
    /\ ref_queries' = ref_queries + 1
    /\ UNCHANGED <<analyzer_vars, parser_vars, describer_vars, repo, exc, lsp, alarm, python_files, file_idx, all_functions,
                   all_classes, all_methods, all_properties, all_imports,
                   method_class_edges, property_class_edges, nodes, call_edges,
                   callee_idx, doc_queries, ref_errors, disk, result>>

\* Mutant: `break` instead of `continue`, the callee loop ends.
NextCallee_Break ==
    /\ callee_idx' = callee_idx + 1
    /\ pc' = "reclassify"
    /\ ref' = NoRef
    /\ ref_count' = 0
    /\ UNCHANGED <<analyzer_vars, parser_vars, describer_vars, repo, exc, lsp, python_files, file_idx, all_functions,
                   all_classes, all_methods, all_properties, all_imports,
                   method_class_edges, property_class_edges, nodes, call_edges,
                   doc_queries, disk, result>>

\* `continue`: the callee loop goes on with the next callee, no edge added.
NextCallee ==
    /\ callee_idx' = callee_idx + 1
    /\ pc' = AfterCallee(callee_idx', all_callees)
    /\ ref' = NoRef
    /\ ref_count' = 0
    /\ UNCHANGED <<analyzer_vars, parser_vars, describer_vars, repo, exc, lsp, python_files, file_idx, all_functions,
                   all_classes, all_methods, all_properties, all_imports,
                   method_class_edges, property_class_edges, nodes, call_edges,
                   doc_queries, disk, result>>

\* request_references returned an empty result (if not refs_result: continue).
NoReferences ==
    /\ pc = "stepB"
    /\ callee_idx <= Len(all_callees)
    /\ ref_queries' = ref_queries + 1
    /\ NextCallee
    /\ UNCHANGED <<alarm, ref_errors>>

\* request_references raised: except Exception prints the error and continues.
RequestReferencesRaises ==
    /\ pc = "stepB"
    /\ callee_idx <= Len(all_callees)
    /\ ref_queries' = ref_queries + 1
    /\ ref_errors' = ref_errors + 1
    /\ NextCallee
    /\ UNCHANGED alarm

\* SIGALRM is delivered while the main thread runs inside the try block of
\* request_references: the TimeoutError timeout_handler raises is an Exception
\* and ends in the same except branch.
TimeoutCaught ==
    /\ pc = "stepB"
    /\ callee_idx <= Len(all_callees)
    /\ alarm = "armed"
    /\ alarm' = "expired"
    /\ ref_queries' = ref_queries + 1
    /\ ref_errors' = ref_errors + 1
    /\ NextCallee

\* One iteration of `for ref in refs_result`.
ProcessRef ==
    /\ pc = "refs"
    /\ ref_count < MaxRefs
    /\ \E r \in RefLocations :
          /\ ref' = r
          /\ call_edges' = ResolveReference(all_callees[callee_idx], r, call_edges,
                                            all_functions, all_methods, all_properties)
    /\ ref_count' = ref_count + 1
    /\ UNCHANGED <<analyzer_vars, parser_vars, describer_vars, repo, pc, exc, lsp, alarm, python_files, file_idx, all_functions,
                   all_classes, all_methods, all_properties, all_imports,
                   method_class_edges, property_class_edges, nodes, callee_idx,
                   doc_queries, ref_queries, ref_errors, disk, result>>

\* refs_result is exhausted: the next callee, or the end of find_function_edges.
EndRefs ==
    /\ pc = "refs"
    /\ ref_count >= 1
    /\ callee_idx' = callee_idx + 1
    /\ pc' = AfterCallee(callee_idx', all_callees)
    /\ ref' = NoRef
    /\ ref_count' = 0
    /\ UNCHANGED <<analyzer_vars, parser_vars, describer_vars, repo, exc, lsp, alarm, python_files, file_idx, all_functions,
                   all_classes, all_methods, all_properties, all_imports,
                   method_class_edges, property_class_edges, nodes, call_edges,
                   doc_queries, ref_queries, ref_errors, disk, result>>

\* graph["nodes"] = reclassify_isolated_classes_as_imports(...); the call and
\* declaration graphs are built over the same node list.
Reclassify ==
    /\ pc = "reclassify"
    /\ nodes' = reclassify_isolated_classes_as_imports(nodes, call_edges, declaration_edges)
    /\ pc' = "save_call"
    /\ UNCHANGED <<analyzer_vars, parser_vars, describer_vars, repo, exc, lsp, alarm, python_files, file_idx, all_functions,
                   all_classes, all_methods, all_properties, all_imports,
                   method_class_edges, property_class_edges, call_edges, callee_idx,
                   ref, ref_count, doc_queries, ref_queries, ref_errors, disk, result>>

\* save_graph(call_graph, CALL_GRAPH_JSON_FILE, "Call Graph")
SaveCallGraph ==
    /\ pc = "save_call"
    /\ disk' = [disk EXCEPT !.call = <<create_call_graph(nodes, call_edges)>>]
    /\ pc' = "save_declaration"
    /\ UNCHANGED <<analyzer_vars, parser_vars, describer_vars, repo, exc, lsp, alarm, lists, doc_queries, ref_queries, ref_errors, result>>

\* save_graph(declaration_graph, DECLARATION_GRAPH_JSON_FILE, "Declaration Graph")
SaveDeclarationGraph ==
    /\ pc = "save_declaration"
    /\ disk' = [disk EXCEPT !.declaration =
                    <<create_declaration_graph(nodes, method_class_edges,
                                               property_class_edges)>>]
    /\ pc' = "save_combined"
    /\ UNCHANGED <<analyzer_vars, parser_vars, describer_vars, repo, exc, lsp, alarm, lists, doc_queries, ref_queries, ref_errors, result>>

\* graph["edges"] = ...; save_graph(graph, GRAPH_JSON_FILE, "Combined Graph")
SaveCombinedGraph ==
    /\ pc = "save_combined"
    /\ disk' = [disk EXCEPT !.combined =
                    <<CombinedGraph(nodes, call_edges, method_class_edges,
                                    property_class_edges)>>]
    /\ pc' = "return"
    /\ UNCHANGED <<analyzer_vars, parser_vars, describer_vars, repo, exc, lsp, alarm, lists, doc_queries, ref_queries, ref_errors, result>>

\* return {"combined": ..., "call": ..., "declaration": ...}: the server is
\* stopped, main cancels the alarm and returns the result.
Return ==
    /\ pc = "return"
    /\ result' = <<[combined |-> CombinedGraph(nodes, call_edges, method_class_edges,
                                               property_class_edges),
                    call |-> create_call_graph(nodes, call_edges),
                    declaration |-> create_declaration_graph(nodes, method_class_edges,
                                                             property_class_edges)]>>
    /\ lsp' = "stopped"
    /\ alarm' = IF alarm = "armed" THEN "off" ELSE alarm
    /\ pc' = "done"
    /\ DropLocals
    /\ UNCHANGED <<analyzer_vars, parser_vars, describer_vars, repo, exc, doc_queries, ref_queries, ref_errors, disk>>

\* SIGALRM is delivered while the build runs, outside the try block of
\* request_references: the TimeoutError of timeout_handler leaves the build.
Timeout ==
    /\ alarm = "armed"
    /\ pc \notin {"init", "raised", "done", "parser_returned", "parser_raised",
                 "parser_called", "killed"}
    /\ alarm' = "expired"
    /\ Raise("timeout")
    /\ \E patched \in (IF pc = "setup" THEN BOOLEAN ELSE {FALSE}) :
          jedi_init' = IF patched THEN "patched" ELSE jedi_init
    /\ UNCHANGED doc_queries

\* run_parser_on_directory(directory_path) is called: old_path is saved and
\* repository_root_path set to the absolute path of the directory, before the
\* try block whose body runs main().
RunParserOnDirectory ==
    /\ pc \in {"init", "parser_returned", "parser_raised"}
    /\ describer \in {"none", "parsing", "cmd_parsing"}
    /\ analyzer = "none"
    /\ calls < MaxCalls
    /\ calls' = calls + 1
    /\ \E d \in Directories :
          /\ directory_path' = d
          /\ repository_root_path' = abspath(d)
    /\ old_path' = <<repository_root_path>>
    /\ pc' = "parser_called"
    /\ exc' = "none"
    /\ lsp' = "none"
    /\ result' = <<>>
    /\ doc_queries' = 0
    /\ ref_queries' = 0
    /\ ref_errors' = 0
    /\ describer' = CASE describer = "parsing" -> "in_parser"
                       [] describer = "cmd_parsing" -> "cmd_in_parser"
                       [] OTHER -> describer
    /\ UNCHANGED <<analyzer_vars, repo, alarm, lists, disk, artifacts_path, auto_parse,
                   stale, loaded, self_nodes, self_edges, jedi_init>>

\* Mutant: the finally clause is missing, the path of the call stays.
RestorePath_Missing(path) == repository_root_path

\* finally: repository_root_path = old_path
RestorePath(path) == path

\* run_parser_on_directory: asyncio.run(main()) returned, `return result`
\* after the finally clause.
RunParserReturns ==
    /\ pc = "done"
    /\ old_path # <<>>
    /\ pc' = "parser_returned"
    /\ repository_root_path' = RestorePath(old_path[1])
    /\ old_path' = <<>>
    /\ directory_path' = <<>>
    /\ UNCHANGED <<analyzer_vars, describer_vars, repo, exc, lsp, alarm, lists, doc_queries,
                   ref_queries, ref_errors, disk, result, calls, jedi_init>>

\* run_parser_on_directory: asyncio.run(main()) raised; the try has a finally
\* clause and no except clause, the exception goes on to the caller.
RunParserRaises ==
    /\ pc = "raised"
    /\ old_path # <<>>
    /\ pc' = "parser_raised"
    /\ repository_root_path' = RestorePath(old_path[1])
    /\ old_path' = <<>>
    /\ directory_path' = <<>>
    /\ UNCHANGED <<analyzer_vars, describer_vars, repo, exc, lsp, alarm, lists, doc_queries,
                   ref_queries, ref_errors, disk, result, calls, jedi_init>>

\* The build wrote a file at path: the saves that did.
Written(path) == {k \in DOMAIN SavedFile : SavedFile[k] = path /\ disk[k] # <<>>}

\* path.exists()
Exists(path) ==
    \/ \E name \in stale : path = Append(artifacts_path, name)
    \/ Written(path) # {}

\* What json.load of the file at path may give.
Contents(path) ==
    IF Written(path) # {} THEN {disk[k][1] : k \in Written(path)} ELSE StaleGraphs

\* CodeGraphDescriber._artifacts_exist
artifacts_exist == \A name \in RequiredFiles : Exists(Append(artifacts_path, name))

\* __init__: `if auto_parse and not self._artifacts_exist()` is true, the
\* parser is run on the repository.
DescriberRunsParser ==
    /\ describer = "init"
    /\ auto_parse /\ ~artifacts_exist
    /\ describer' = "parsing"
    /\ UNCHANGED <<analyzer_vars, parser_vars, repo, pc, exc, lsp, alarm, lists,
                   doc_queries, ref_queries, ref_errors, disk, result, artifacts_path, auto_parse,
                   stale, loaded, self_nodes, self_edges>>

\* __init__: the condition is false, the graph data is loaded at once.
DescriberSkipsParser ==
    /\ describer = "init"
    /\ ~(auto_parse /\ ~artifacts_exist)
    /\ describer' = "load"
    /\ UNCHANGED <<analyzer_vars, parser_vars, repo, pc, exc, lsp, alarm, lists,
                   doc_queries, ref_queries, ref_errors, disk, result, artifacts_path, auto_parse,
                   stale, loaded, self_nodes, self_edges>>

\* _run_parser_to_generate_artifacts: run_parser_on_directory returned, or
\* raised into `except Exception`; either way __init__ goes on.
DescriberParserDone ==
    /\ describer = "in_parser"
    /\ pc \in {"parser_returned", "parser_raised"}
    /\ describer' = "load"
    /\ UNCHANGED <<analyzer_vars, parser_vars, repo, pc, exc, lsp, alarm, lists,
                   doc_queries, ref_queries, ref_errors, disk, result, artifacts_path, auto_parse,
                   stale, loaded, self_nodes, self_edges>>

\* _load_graph_data: combined_graph.json of artifacts_path is loaded into
\* self.nodes and self.edges, or FileNotFoundError is raised if it does not
\* exist: it leaves the constructor, and is caught by the command loop.
LoadGraphData ==
    /\ describer \in {"load", "reload"}
    /\ LET combined_path == Append(artifacts_path, "combined_graph.json")
       IN IF Exists(combined_path)
          THEN /\ \E graph_data \in Contents(combined_path) :
                     /\ loaded' = <<graph_data>>
                     /\ self_nodes' = LoadNodes(self_nodes, graph_data.nodes)
                     /\ self_edges' = graph_data.edges
               /\ describer' = IF describer = "load" THEN "loaded" ELSE "reloaded"
          ELSE /\ UNCHANGED <<loaded, self_nodes, self_edges>>
               /\ describer' = IF describer = "load" THEN "file_not_found" ELSE "ready"
    /\ UNCHANGED <<analyzer_vars, parser_vars, repo, pc, exc, lsp, alarm, lists,
                   doc_queries, ref_queries, ref_errors, disk, result, artifacts_path,
                   auto_parse, stale>>

\* self._build_dependency_graph(), the last step of the constructor and of
\* the reload; then the command loop waits for a command.
BuildDependencyGraph ==
    /\ describer \in {"loaded", "reloaded"}
    /\ self_nodes' = build_dependency_graph(self_nodes, self_edges, 1)
    /\ describer' = "ready"
    /\ UNCHANGED <<analyzer_vars, parser_vars, repo, pc, exc, lsp, alarm, lists,
                   doc_queries, ref_queries, ref_errors, disk, result, artifacts_path,
                   auto_parse, stale, loaded, self_edges>>

\* interactive_explore: the command `parse` is given,
\* _run_parser_to_generate_artifacts is called.
ParseCommand ==
    /\ describer = "ready"
    /\ calls < MaxCalls
    /\ describer' = "cmd_parsing"
    /\ UNCHANGED <<analyzer_vars, parser_vars, repo, pc, exc, lsp, alarm, lists,
                   doc_queries, ref_queries, ref_errors, disk, result, artifacts_path,
                   auto_parse, stale, loaded, self_nodes, self_edges>>

\* interactive_explore: _run_parser_to_generate_artifacts returned True (the
\* graph data is loaded again) or False ("Parser failed.").
ParseCommandDone ==
    /\ describer = "cmd_in_parser"
    /\ pc \in {"parser_returned", "parser_raised"}
    /\ describer' = IF pc = "parser_returned" /\ result # <<>> THEN "reload" ELSE "ready"
    /\ UNCHANGED <<analyzer_vars, parser_vars, repo, pc, exc, lsp, alarm, lists,
                   doc_queries, ref_queries, ref_errors, disk, result, artifacts_path,
                   auto_parse, stale, loaded, self_nodes, self_edges>>

Next ==
    \/ Main
    \/ SetupLsp
    \/ SetupLspRaises
    \/ StartServer
    \/ StartServerRaises
    \/ FindPythonFiles
    \/ GetFunctionsFromFile
    \/ DocumentSymbolsRaises
    \/ RequestReferences
    \/ NoReferences
    \/ RequestReferencesRaises
    \/ TimeoutCaught
    \/ ProcessRef
    \/ EndRefs
    \/ Reclassify
    \/ SaveCallGraph
    \/ SaveDeclarationGraph
    \/ SaveCombinedGraph
    \/ Return
    \/ Timeout

\* The build as called through run_parser_on_directory, any number of times.
NextParser ==
    \/ Next
    \/ RunParserOnDirectory
    \/ RunParserReturns
    \/ RunParserRaises

Spec == Init /\ [][Next]_vars

SpecMembers == InitMembers /\ [][Next]_vars

SpecCollision == InitCollision /\ [][Next]_vars

SpecScenario == InitScenario /\ [][Next]_vars

SpecNesting == InitNesting /\ [][Next]_vars

SpecParser == InitScenario /\ [][NextParser]_vars

\* ------------------------------------- GitHubCodeAnalyzer (basic-code-entry.py)
\* What analyze_repository and the build leave alone between them.
build_vars == <<repo, exc, lsp, alarm, lists, doc_queries, ref_queries, ref_errors,
                disk, result>>

\* An error message is appended and analyze_repository returns the results.
ReturnWithError(message) ==
    /\ errors' = Append(errors, message)
    /\ analyzer' = "returned"

\* Stage 1: clone_repository returned True.
CloneSucceeds ==
    /\ analyzer = "clone"
    /\ stages' = [stages EXCEPT !.clone = TRUE]
    /\ analyzer' = "parse"
    /\ UNCHANGED <<build_vars, pc, describer_vars, parser_vars, errors, temp_parser>>

\* Stage 1: clone_repository returned False (invalid URL, git failed, timed
\* out or is missing).
CloneFails ==
    /\ analyzer = "clone"
    /\ ReturnWithError("Failed to clone repository")
    /\ UNCHANGED <<build_vars, pc, describer_vars, parser_vars, stages, temp_parser>>

\* Stage 1: clone_repository raised before its try block (urlparse, rmtree);
\* the except clause of analyze_repository records it.
CloneRaises ==
    /\ analyzer = "clone"
    /\ ReturnWithError("Unexpected error")
    /\ UNCHANGED <<build_vars, pc, describer_vars, parser_vars, stages, temp_parser>>

\* find_python_files: the number of files matching **/*.py under repo_dir
python_count == Cardinality({i \in 1..Len(repo) : EndsWithPy(Basename(repo[i].path))})

\* Stage 2: run_parser found no Python file and returned False.
RunParserNoPythonFiles ==
    /\ analyzer = "parse"
    /\ python_count = 0
    /\ ReturnWithError("Failed to parse code structure")
    /\ UNCHANGED <<build_vars, pc, describer_vars, parser_vars, stages, temp_parser>>

\* Stage 2: run_parser could not read the parser script, did not find the
\* line to replace or could not write temp_parser.py; it returned False.
RunParserPrepareFails ==
    /\ analyzer = "parse"
    /\ python_count > 0
    /\ ReturnWithError("Failed to parse code structure")
    /\ UNCHANGED <<build_vars, pc, describer_vars, parser_vars, stages, temp_parser>>

\* Stage 2: run_parser wrote temp_parser.py and calls subprocess.run on it.
RunParserWritesScript ==
    /\ analyzer = "parse"
    /\ python_count > 0
    /\ temp_parser' = TRUE
    /\ analyzer' = "subprocess"
    /\ UNCHANGED <<build_vars, pc, describer_vars, parser_vars, stages, errors>>

\* Stage 2: subprocess.run raised because the interpreter could not be
\* started; `except Exception` returns False.  temp_parser.unlink() is the
\* statement after subprocess.run and is skipped.
SubprocessFailsToStart ==
    /\ analyzer = "subprocess"
    /\ pc = "init"
    /\ pc' = "killed"
    /\ ReturnWithError("Failed to parse code structure")
    /\ UNCHANGED <<build_vars, describer_vars, parser_vars, stages, temp_parser>>

\* Stage 2: subprocess.run raised TimeoutExpired after 600 s and killed the
\* child: the build had swallowed its alarm and ran on without a deadline.
\* The unlink is skipped here too.
SubprocessTimeout ==
    /\ analyzer = "subprocess"
    /\ alarm = "expired"
    /\ pc \notin {"init", "raised", "done", "killed"}
    /\ pc' = "killed"
    /\ DropLocals
    /\ ReturnWithError("Failed to parse code structure")
    /\ UNCHANGED <<repo, exc, lsp, alarm, doc_queries, ref_queries, ref_errors, disk,
                   result, describer_vars, parser_vars, stages, temp_parser>>

\* The exit status of `python temp_parser.py`: 0 if main returned a result,
\* 1 after sys.exit(1) or an exception that left asyncio.run.
returncode == IF pc = "done" /\ result # <<>> THEN 0 ELSE 1

\* Stage 2: the subprocess ended; temp_parser.py is removed and run_parser
\* returns True if the return code is 0.
SubprocessExits ==
    /\ analyzer = "subprocess"
    /\ pc \in {"done", "raised"}
    /\ temp_parser' = FALSE
    /\ IF returncode = 0
       THEN /\ stages' = [stages EXCEPT !.parse = TRUE]
            /\ analyzer' = "artifacts"
            /\ errors' = errors
       ELSE /\ ReturnWithError("Failed to parse code structure")
            /\ stages' = stages
    /\ UNCHANGED <<build_vars, pc, describer_vars, parser_vars>>

\* Stage 2: the JSON files of react-graph-viewer/public/artifacts were read
\* into results['artifacts'].
ReadArtifacts ==
    /\ analyzer = "artifacts"
    /\ analyzer' = "visualize"
    /\ UNCHANGED <<build_vars, pc, describer_vars, parser_vars, stages, errors, temp_parser>>

\* Stage 2: reading an artifact raised (json.load); the except clause of
\* analyze_repository records it.
ReadArtifactsRaises ==
    /\ analyzer = "artifacts"
    /\ ReturnWithError("Unexpected error")
    /\ UNCHANGED <<build_vars, pc, describer_vars, parser_vars, stages, temp_parser>>

\* Stage 3: build_react_app returned True.
BuildReactAppSucceeds ==
    /\ analyzer = "visualize"
    /\ stages' = [stages EXCEPT !.visualize = TRUE]
    /\ analyzer' = "describe"
    /\ UNCHANGED <<build_vars, pc, describer_vars, parser_vars, errors, temp_parser>>

\* Mutant: a failed visualization ends the analysis.
BuildReactAppFails_Returns ==
    /\ analyzer = "visualize"
    /\ ReturnWithError("Failed to build visualization")
    /\ UNCHANGED <<build_vars, pc, describer_vars, parser_vars, stages, temp_parser>>

\* Stage 3: build_react_app returned False; the analysis continues.
BuildReactAppFails ==
    /\ analyzer = "visualize"
    /\ errors' = Append(errors, "Failed to build visualization")
    /\ analyzer' = "describe"
    /\ UNCHANGED <<build_vars, pc, describer_vars, parser_vars, stages, temp_parser>>

\* Stage 4: start_describer returned True; the results are returned.
StartDescriberSucceeds ==
    /\ analyzer = "describe"
    /\ stages' = [stages EXCEPT !.describe = TRUE]
    /\ analyzer' = "returned"
    /\ UNCHANGED <<build_vars, pc, describer_vars, parser_vars, errors, temp_parser>>

\* Mutant: the failure of the describer is not recorded.
StartDescriberFails_Silent ==
    /\ analyzer = "describe"
    /\ analyzer' = "returned"
    /\ UNCHANGED <<build_vars, pc, describer_vars, parser_vars, stages, errors, temp_parser>>

\* Stage 4: start_describer returned False; the results are returned.
StartDescriberFails ==
    /\ analyzer = "describe"
    /\ ReturnWithError("Failed to setup describer")
    /\ UNCHANGED <<build_vars, pc, describer_vars, parser_vars, stages, temp_parser>>

\* main() of basic-code-entry.py: sys.exit(1) if results['errors'] is not
\* empty, a normal exit otherwise.
AnalyzerExits ==
    /\ analyzer = "returned"
    /\ analyzer' = IF errors # <<>> THEN "exit_1" ELSE "exit_0"
    /\ UNCHANGED <<build_vars, pc, describer_vars, parser_vars, stages, errors, temp_parser>>

NextAnalyzer ==
    \/ Next
    \/ CloneSucceeds
    \/ CloneFails
    \/ CloneRaises
    \/ RunParserNoPythonFiles
    \/ RunParserPrepareFails
    \/ RunParserWritesScript
    \/ SubprocessFailsToStart
    \/ SubprocessTimeout
    \/ SubprocessExits
    \/ ReadArtifacts
    \/ ReadArtifactsRaises
    \/ BuildReactAppSucceeds
    \/ BuildReactAppFails
    \/ StartDescriberSucceeds
    \/ StartDescriberFails
    \/ AnalyzerExits

\* The repositories the analyzer clones: those of the Calculator scenario
\* and some without a Python file.
AnalyzerRepos == ScenarioRepos \cup {<<>>} \cup {<<f>> : f \in SkippedFiles}

\* analyze_repository(github_url) has built its results dict and enters the
\* try block.
InitAnalyzer ==
    /\ repo \in AnalyzerRepos
    /\ InitState
    /\ NoDescriber
    /\ analyzer = "clone"
    /\ stages = [clone |-> FALSE, parse |-> FALSE, visualize |-> FALSE, describe |-> FALSE]
    /\ errors = <<>>
    /\ temp_parser = FALSE

SpecAnalyzer == InitAnalyzer /\ [][NextAnalyzer]_vars

\* The build as run by the constructor of a CodeGraphDescriber.
NextDescriber ==
    \/ NextParser
    \/ DescriberRunsParser
    \/ DescriberSkipsParser
    \/ DescriberParserDone
    \/ LoadGraphData
    \/ BuildDependencyGraph

SpecDescriber == InitDescriber /\ [][NextDescriber]_vars

\* The describer in interactive_explore, on a repository of one function.
ExploreRepos ==
    {<<File(<<"main.py">>,
            <<[name |-> "main", kind |-> 12, start |-> 0, end |-> 7, children |-> <<>>]>>)>>}

InitExplore ==
    /\ repo \in ExploreRepos
    /\ InitState
    /\ describer = "init"
    /\ artifacts_path \in ArtifactsPaths
    /\ auto_parse \in BOOLEAN
    /\ stale \in SUBSET RequiredFiles
    /\ loaded = <<>>
    /\ self_nodes = NoNodes
    /\ self_edges = <<>>
    /\ NoAnalyzer

NextExplore ==
    \/ NextDescriber
    \/ ParseCommand
    \/ ParseCommandDone

SpecExplore == InitExplore /\ [][NextExplore]_vars

\* ------------------------------------------------------------- properties
Elems(seq) == {seq[i] : i \in 1..Len(seq)}

\* The graphs a build has written or returned so far.
SavedGraphs ==
    Elems(disk.call) \cup Elems(disk.declaration) \cup Elems(disk.combined)

ReturnedGraphs ==
    UNION {{result[i].combined, result[i].call, result[i].declaration} :
             i \in 1..Len(result)}

\* STEP A is over: every file has been processed.
StepADone ==
    pc \in {"stepB", "refs", "reclassify", "save_call", "save_declaration",
            "save_combined", "return"}

\* Occurrences of x in seq.
Count(seq, x) == Cardinality({i \in 1..Len(seq) : seq[i] = x})

NoDuplicates(seq) == \A i, j \in 1..Len(seq) : seq[i] = seq[j] => i = j

IdOf(entity) == <<entity.name, Basename(entity.file_path)>>

\* The class's line range holds the member's first line, same file.
Holds(class_info, member) ==
    /\ class_info.file_path = member.file_path
    /\ class_info.start <= member.start
    /\ member.start <= class_info.end

\* C1: in every graph saved or returned by a build, both endpoints of every
\* edge are ids of nodes of that graph.
C1_EdgesReferenceNodes ==
    \A g \in SavedGraphs \cup ReturnedGraphs :
        \A e \in Elems(g.edges) :
            /\ \E n \in Elems(g.nodes) : n.id = e.from
            /\ \E n \in Elems(g.nodes) : n.id = e.to

\* A build returned a graph with an edge between entities of two files.
C1_Witness ==
    /\ pc = "done"
    /\ \E g \in ReturnedGraphs : \E e \in Elems(g.edges) : e.from[2] # e.to[2]
    /\ disk.combined # <<>>

\* C2: no call edge is a self-loop, while the edges are collected and in the
\* call graphs saved and returned.
C2_NoSelfLoop ==
    /\ \A e \in Elems(call_edges) : e.from # e.to
    /\ \A e \in UNION {Elems(g.edges) : g \in Elems(disk.call)} : e.from # e.to
    /\ \A i \in 1..Len(result) : \A e \in Elems(result[i].call.edges) : e.from # e.to

\* A reference inside the queried function's own range was resolved and
\* recorded no edge.
C2_Witness ==
    /\ pc = "refs"
    /\ ref_count = 1
    /\ callee_idx <= Len(all_functions)
    /\ ref.relativePath = all_functions[callee_idx].file_path
    /\ all_functions[callee_idx].start <= ref.line
    /\ ref.line <= all_functions[callee_idx].end
    /\ find_caller_function(all_functions, ref.relativePath, ref.line) = callee_idx
    /\ call_edges = <<>>

\* C3 as stated: for every Method M and every Class C of the same file whose
\* range holds M's first line, the declaration edges hold exactly one edge
\* C -> M.
C3_OneEdgePerContainingClass ==
    StepADone =>
        \A m \in Elems(all_methods) : \A c \in Elems(all_classes) :
            Holds(c, m) => Count(declaration_edges, Edge(IdOf(c), IdOf(m))) = 1

\* C3 as amended: for every Method M that some Class range of its file holds,
\* the declaration edges hold the edge C -> M for the first such Class C in
\* traversal order, nested or flat.
C3_EdgeFromFirstContainingClass ==
    StepADone =>
        \A m \in Elems(all_methods) : \A k \in 1..Len(all_classes) :
            (/\ Holds(all_classes[k], m)
             /\ \A j \in 1..(k - 1) : ~Holds(all_classes[j], m))
            => Edge(IdOf(all_classes[k]), IdOf(m)) \in Elems(declaration_edges)

\* A flat symbol list in which two classes hold a method: the edge comes from
\* the first class only.
C3_Witness ==
    /\ StepADone
    /\ Len(all_classes) = 2
    /\ Len(all_methods) = 1
    /\ all_methods[1].parent_class = None
    /\ all_classes[1].name # all_classes[2].name
    /\ Holds(all_classes[1], all_methods[1])
    /\ Holds(all_classes[2], all_methods[1])
    /\ declaration_edges = <<Edge(IdOf(all_classes[1]), IdOf(all_methods[1]))>>

\* The ids some call or declaration edge starts or ends at.
Incident(id) ==
    \E e \in Elems(call_edges) \cup Elems(declaration_edges) : e.from = id \/ e.to = id

\* A declaration edge can belong to class entity c: a method or property of
\* c's file names c as its parent class or starts inside c's range.
MayDeclare(c) ==
    \E m \in Elems(all_methods) \cup Elems(all_properties) :
        m.file_path = c.file_path /\ (m.parent_class = c.name \/ Holds(c, m))

\* C4 as stated: a Class entity none of whose own edges exists (classes are
\* never call endpoints, and no member can be declared by any class of its
\* id) does not keep kind CLASS, also when another entity with edges shares
\* its id.
C4_IsolatedClassEntityBecomesImport ==
    pc = "save_call" =>
        \A c \in Elems(all_classes) :
            (\A d \in Elems(all_classes) : IdOf(d) = IdOf(c) => ~MayDeclare(d))
            => ~\E n \in Elems(nodes) : n.id = IdOf(c) /\ n.kind = "CLASS"

\* The reclassification step: a node of kind CLASS becomes IMPORT exactly if
\* no edge names its id, and no other node changes.
C4_ReclassifyStep ==
    (pc = "reclassify" /\ pc' = "save_call") =>
        /\ Len(nodes') = Len(nodes)
        /\ \A i \in 1..Len(nodes) :
             IF nodes[i].kind = "CLASS"
             THEN /\ nodes'[i] \in {[nodes[i] EXCEPT !.kind = "IMPORT"], nodes[i]}
                  /\ nodes'[i].kind = "IMPORT" <=> ~Incident(nodes[i].id)
             ELSE nodes'[i] = nodes[i]

\* C4 as amended: the reclassification turns a node of kind CLASS into IMPORT
\* exactly if no call or declaration edge names its id as from or to (an
\* edge of another entity with the same id counts), keeps it CLASS
\* otherwise, and changes nothing else.
C4_ClassIsImportIffIdHasNoEdge == [][C4_ReclassifyStep]_vars

\* After the reclassification one discovered class is an IMPORT node and
\* another one, with a declaration edge, is still a CLASS node.
C4_Witness ==
    /\ pc = "save_call"
    /\ Len(all_classes) = 2
    /\ all_imports = <<>>
    /\ \E n \in Elems(nodes) : n.kind = "IMPORT"
    /\ \E n \in Elems(nodes) : n.kind = "CLASS" /\ Incident(n.id)

CalculatorId == <<"Calculator", "operations.py">>
AddId == <<"add", "operations.py">>
MainId == <<"main", "main.py">>

\* Every edge the build holds, has saved or has returned.
EdgesNow ==
    Elems(call_edges) \cup Elems(declaration_edges)
    \cup UNION {Elems(g.edges) : g \in SavedGraphs \cup ReturnedGraphs}

\* The call edges collected or returned.
CallEdgesNow ==
    Elems(call_edges) \cup UNION {Elems(result[i].call.edges) : i \in 1..Len(result)}

\* A reference to add inside main's range has just been resolved.
AddReferencedInMain ==
    /\ pc = "refs"
    /\ ref_count >= 1
    /\ all_callees[callee_idx].name = "add"
    /\ ref.relativePath = <<"main.py">>
    /\ ref.line \in 0..7

\* One step of the scenario's build keeps both edges and never makes the
\* edge Calculator -> main.
C5_ScenarioStep ==
    /\ AddReferencedInMain' => Edge(MainId, AddId) \in Elems(call_edges')
    /\ (Edge(MainId, AddId) \in CallEdgesNow /\ pc' # "raised")
           => Edge(MainId, AddId) \in CallEdgesNow'
    /\ StepADone' => Edge(CalculatorId, AddId) \in Elems(declaration_edges')
    /\ pc' = "done" =>
           /\ Edge(CalculatorId, AddId) \in Elems(result'[1].declaration.edges)
           /\ Edge(CalculatorId, AddId) \in Elems(result'[1].combined.edges)
           /\ \A e \in Elems(result'[1].call.edges) :
                  e \in Elems(result'[1].combined.edges)
    /\ Edge(CalculatorId, MainId) \notin EdgesNow'

\* C5: in the Calculator scenario the declaration edge Calculator -> add is
\* produced, the call edge main -> add is recorded as soon as a reference to
\* add inside main is resolved and stays in the result, and no edge
\* Calculator -> main ever exists.
C5_CalculatorScenario == [][C5_ScenarioStep]_vars

\* The scenario's build returned both edges.
C5_Witness ==
    /\ pc = "done"
    /\ Edge(MainId, AddId) \in Elems(result[1].call.edges)
    /\ Edge(CalculatorId, AddId) \in Elems(result[1].declaration.edges)
    /\ disk.combined = <<result[1].combined>>

\* C6: the call edge list holds no two equal (from, to) pairs, while it is
\* collected and in the call graphs saved and returned.
C6_CallEdgesDistinct ==
    /\ NoDuplicates(call_edges)
    /\ \A g \in Elems(disk.call) : NoDuplicates(g.edges)
    /\ \A i \in 1..Len(result) : NoDuplicates(result[i].call.edges)

\* Two references of one query were resolved, the last one to a caller whose
\* edge is the only edge recorded.
C6_Witness ==
    /\ pc = "refs"
    /\ ref_count = 2
    /\ callee_idx = 1
    /\ Len(all_functions) = 2
    /\ find_caller_function(all_functions, ref.relativePath, ref.line) = 2
    /\ call_edges = <<Edge(IdOf(all_functions[2]), IdOf(all_functions[1]))>>

\* C7 as stated: the declaration edge list holds no two equal (class id,
\* member id) pairs.
C7_DeclarationEdgesDistinct ==
    /\ NoDuplicates(declaration_edges)
    /\ \A g \in Elems(disk.declaration) : NoDuplicates(g.edges)
    /\ \A i \in 1..Len(result) : NoDuplicates(result[i].declaration.edges)

IsOtherKind(sym) == sym.kind \notin {2, 5, 6, 7, 12}

KindName(sym) ==
    CASE sym.kind = 2 -> "IMPORT"
      [] sym.kind = 5 -> "CLASS"
      [] sym.kind = 6 -> "METHOD"
      [] sym.kind = 7 -> "PROPERTY"
      [] sym.kind = 12 -> "FUNCTION"
      [] OTHER -> "none"

\* Symbols of a forest that are of a kind the builder records.
RECURSIVE Recorded(_)
Recorded(forest) ==
    IF forest = <<>> THEN 0
    ELSE (IF IsOtherKind(Head(forest)) THEN 0 ELSE 1)
         + Recorded(Head(forest).children) + Recorded(Tail(forest))

RECURSIVE RecordedInRepo(_)
RecordedInRepo(files) ==
    IF files = <<>> THEN 0
    ELSE (IF IsPythonFile(Basename(Head(files).path))
          THEN Recorded(Head(files).symbols) ELSE 0)
         + RecordedInRepo(Tail(files))

\* The entity lists hold an entity for symbol sym of file path with the
\* given parent_class context.
HasEntity(sym, path, parent_class) ==
    LET Is(e) == /\ e.name = sym.name
                 /\ e.kind = KindName(sym)
                 /\ e.file_path = path
                 /\ e.start = sym.start
                 /\ e.end = sym.end
                 /\ e.parent_class = parent_class
    IN \E e \in Elems(all_functions) \cup Elems(all_classes) \cup Elems(all_methods)
                \cup Elems(all_properties) \cup Elems(all_imports) : Is(e)

\* Every recorded-kind child of a symbol of another kind, at any depth of
\* forest, has its entity, with the parent class ctx of the other-kind
\* symbol (the name of the nearest enclosing Class symbol, None if none).
RECURSIVE ChildrenOfOtherKindsRecorded(_, _, _)
ChildrenOfOtherKindsRecorded(forest, ctx, path) ==
    \A s \in Elems(forest) :
        /\ IsOtherKind(s) =>
              \A c \in Elems(s.children) :
                  ~IsOtherKind(c) =>
                      HasEntity(c, path, IF c.kind \in {6, 7} THEN ctx ELSE None)
        /\ ChildrenOfOtherKindsRecorded(s.children,
                                        IF s.kind = 5 THEN s.name ELSE ctx, path)

\* C8: a symbol of another kind creates no entity (there are as many nodes as
\* symbols of the five recorded kinds), and each of its children is
\* classified by its own kind under the unchanged parent class: a Function
\* child is in all_functions, a Method child in all_methods with the
\* parent_class the other-kind symbol was visited with.
C8_OtherKindsAreTransparent ==
    StepADone =>
        /\ Len(nodes) = RecordedInRepo(repo)
        /\ \A f \in Elems(repo) :
              IsPythonFile(Basename(f.path)) =>
                  ChildrenOfOtherKindsRecorded(f.symbols, None, f.path)

\* A Function nested under a symbol of another kind is the only entity.
C8_Witness ==
    /\ StepADone
    /\ Len(repo) = 1
    /\ Len(repo[1].symbols) = 1
    /\ repo[1].symbols[1].kind = 13
    /\ Len(repo[1].symbols[1].children) = 1
    /\ repo[1].symbols[1].children[1].kind = 12
    /\ Len(all_functions) = 1
    /\ Len(nodes) = 1
    /\ nodes[1].name = repo[1].symbols[1].children[1].name

\* No file under the root passes the walk's filter.
NoPythonFile == \A f \in Elems(repo) : f \in SkippedFiles

EmptyGraph == [nodes |-> <<>>, edges |-> <<>>]

\* C9: when no Python file is found, no documentSymbols or references query
\* is issued, no step of the build raises once the server is started (only
\* main's alarm can end it), a step that does not raise is always enabled
\* until the build returns, and the graphs saved and returned are empty.
C9_NoFilesGivesEmptyGraphs ==
    NoPythonFile =>
        /\ doc_queries = 0
        /\ ref_queries = 0
        /\ exc \in {"none", "setup_lsp", "start_server", "timeout"}
        /\ pc \notin {"stepA", "stepB", "refs"}
        /\ pc \in {"find", "reclassify", "save_call", "save_declaration",
                   "save_combined", "return"}
              => ENABLED (FindPythonFiles \/ Reclassify \/ SaveCallGraph
                          \/ SaveDeclarationGraph \/ SaveCombinedGraph \/ Return)
        /\ SavedGraphs \cup ReturnedGraphs \subseteq {EmptyGraph}
        /\ pc = "done" =>
              /\ result = <<[combined |-> EmptyGraph, call |-> EmptyGraph,
                            declaration |-> EmptyGraph]>>
              /\ disk = [call |-> <<EmptyGraph>>, declaration |-> <<EmptyGraph>>,
                         combined |-> <<EmptyGraph>>]

\* A root holding only a dunder file: the build returned empty graphs.
C9_Witness ==
    /\ pc = "done"
    /\ repo = <<File(<<"p", "__init__.py">>, <<>>)>>
    /\ result # <<>>
    /\ ReturnedGraphs = {EmptyGraph}

\* C10 as stated: a documentSymbols query (or open_file) that raises never
\* ends the build; the build goes on to the next file.
C10_FileFailureIsSkipped ==
    ~(pc = "raised" /\ exc = "document_symbols")

\* The build is past STEP B: every callee has had its references query.
StepBDone ==
    pc \in {"reclassify", "save_call", "save_declaration", "save_combined", "return"}

\* One step of the build, seen from the references queries: a query that
\* raises is counted once, adds no edge and moves on to the next callee, and
\* the queries issued so far are one per callee reached.
C11_Step ==
    /\ ref_errors' # ref_errors =>
          /\ pc = "stepB"
          /\ ref_errors' = ref_errors + 1
          /\ ref_queries' = ref_queries + 1
          /\ call_edges' = call_edges
          /\ callee_idx' = callee_idx + 1
          /\ pc' = (IF callee_idx' <= Len(all_callees) THEN "stepB" ELSE "reclassify")
          /\ exc' = "none"
          /\ <<all_functions', all_methods', all_properties', all_imports', nodes'>>
                = <<all_functions, all_methods, all_properties, all_imports, nodes>>
    /\ pc' = "stepB" => ref_queries' = callee_idx' - 1
    /\ pc' = "refs" => ref_queries' = callee_idx'
    /\ StepBDone' => ref_queries' = Len(all_callees')

\* C11: a references query that raises ends in the except branch: the build
\* goes on with the next entity, no call edge is added and those recorded are
\* unchanged, every later entity is still queried, and no entity is queried
\* twice.
C11_ReferenceFailureIsSkipped == [][C11_Step]_vars

\* A references query raised (no timeout), and the build went on to query
\* every entity and recorded an edge.
C11_Witness ==
    /\ pc = "reclassify"
    /\ alarm = "armed"
    /\ ref_errors = 1
    /\ Len(all_callees) = 2
    /\ ref_queries = 2
    /\ call_edges # <<>>

\* main() is over, with or without run_parser_on_directory around it.
MainReturned == pc \in {"done", "parser_returned"}

MainRaised == pc \in {"raised", "parser_raised"}

\* C12 as stated: once the alarm went off the build is aborted with a
\* timeout failure, and main returns no graph result.
C12_TimeoutAbortsBuild ==
    (alarm = "expired" /\ (MainReturned \/ MainRaised))
        => (MainRaised /\ exc = "timeout" /\ result = <<>>)

\* One step of the build, seen from the language server: queries are issued
\* to a started server only, and the server is never left started when the
\* build is over.
C13_Step ==
    /\ (doc_queries' # doc_queries \/ ref_queries' # ref_queries) => lsp = "started"
    /\ (MainReturned' \/ MainRaised') => lsp' # "started"
    /\ (lsp = "started" /\ (MainReturned' \/ MainRaised')) => lsp' = "stopped"
    /\ lsp = "stopped" => lsp' = "stopped"

\* C13: every documentSymbols and references query is issued while the
\* server is started, and the server is stopped on every exit of the build:
\* normal completion, a query raising out of the build, a timeout.
C13_ServerScopesQueries == [][C13_Step]_vars

\* A documentSymbols query raised out of the build after a first file was
\* processed; the server is stopped.
C13_Witness ==
    /\ pc = "raised"
    /\ exc = "document_symbols"
    /\ doc_queries = 2
    /\ lsp = "stopped"

\* C14 as stated: no references query is anchored at an Import entity (a
\* query whose references are being resolved, or the one before the current
\* callee), and no call edge ends at the id of an Import entity.
C14_NoQueryForImports ==
    /\ pc = "refs" => all_callees[callee_idx].kind # "IMPORT"
    /\ (pc = "stepB" /\ callee_idx > 1) => all_callees[callee_idx - 1].kind # "IMPORT"
    /\ \A e \in Elems(call_edges) : \A imp \in Elems(all_imports) : e.to # IdOf(imp)

\* Position of an entity kind in the callee search.
KindRank(kind) ==
    CASE kind = "FUNCTION" -> 1
      [] kind = "METHOD" -> 2
      [] kind = "PROPERTY" -> 3
      [] kind = "IMPORT" -> 4
      [] OTHER -> 5

\* One step of the build, seen from the callee search: a query is anchored
\* at a Function, Method, Property or Import entity, in that order; an edge
\* added ends at the entity queried; STEP B ends with one query per entity
\* that is no Class.
C14_Step ==
    /\ ref_queries' # ref_queries =>
          /\ callee_idx <= Len(all_callees)
          /\ KindRank(all_callees[callee_idx].kind) <= 4
          /\ \A i \in 1..(callee_idx - 1) :
                 KindRank(all_callees[i].kind) <= KindRank(all_callees[callee_idx].kind)
    /\ Len(call_edges') > Len(call_edges) =>
          /\ pc = "refs"
          /\ Len(call_edges') = Len(call_edges) + 1
          /\ call_edges'[Len(call_edges')].to = IdOf(all_callees[callee_idx])
          /\ \A i \in 1..Len(call_edges) : call_edges'[i] = call_edges[i]
    /\ StepBDone' => ref_queries' = Len(nodes') - Len(all_classes')

\* C14 as amended: references queries are issued for the Function, Method,
\* Property and Import entities, one each in that order, and for no Class
\* entity; the target of a call edge is the entity whose query returned the
\* reference, an Import entity included.
C14_QueriesForAllButClasses == [][C14_Step]_vars

\* The references of an Import entity are being resolved and a call edge
\* ends at it.
C14_Witness ==
    /\ pc = "refs"
    /\ all_callees[callee_idx].kind = "IMPORT"
    /\ Len(all_callees) = 2
    /\ all_callees[1].kind = "FUNCTION"
    /\ call_edges = <<Edge(IdOf(all_callees[1]), IdOf(all_callees[2]))>>

\* C15: in the result of a build the call, declaration and combined graphs
\* hold the same node list (so every node has the same kind in all three),
\* and the combined edges are the call edges followed by the declaration
\* edges.
C15_GraphsShareNodes ==
    \A i \in 1..Len(result) :
        /\ result[i].call.nodes = result[i].combined.nodes
        /\ result[i].declaration.nodes = result[i].combined.nodes
        /\ result[i].combined.edges = result[i].call.edges \o result[i].declaration.edges

\* A build returned graphs with a call edge, a declaration edge and a class
\* reclassified as import.
C15_Witness ==
    /\ pc = "done"
    /\ result[1].call.edges # <<>>
    /\ result[1].declaration.edges # <<>>
    /\ \E f \in Elems(repo) : \E sym \in Elems(f.symbols) :
          /\ sym.kind = 5
          /\ \E n \in Elems(result[1].call.nodes) : n.name = sym.name /\ n.kind = "IMPORT"

\* C16: when setup_lsp or starting the server raises, the build ends with
\* that exception: no documentSymbols or references query was issued, none
\* of the three graph files is written and nothing is returned.
C16_ProviderFailureGivesNoGraphs ==
    exc \in {"setup_lsp", "start_server"} =>
        /\ MainRaised
        /\ doc_queries = 0
        /\ ref_queries = 0
        /\ disk = [call |-> <<>>, declaration |-> <<>>, combined |-> <<>>]
        /\ result = <<>>
        /\ lsp # "started"

\* Starting the server raised for a root that holds a source file with
\* symbols.
C16_Witness ==
    /\ pc = "raised"
    /\ exc = "start_server"
    /\ lsp = "created"
    /\ \E f \in Elems(repo) : IsPythonFile(Basename(f.path)) /\ f.symbols # <<>>

\* C17 as stated: run_parser_on_directory returns a true value when the
\* build succeeded, and returns (False) rather than raising when it failed.
C17_ParserReturnsFalseOnFailure ==
    /\ pc = "parser_returned" => result # <<>>
    /\ pc # "parser_raised"

\* The member entities (methods and properties) found so far.
Members == Elems(all_methods) \cup Elems(all_properties)

\* C19 as stated: a member that the symbol tree nests under a class (and
\* that shares its id with no other member) has declaration edges from that
\* class only: the reconciliation adds none from another class whose range
\* holds it.
C19_NestedMemberHasOneDeclaringClass ==
    StepADone =>
        \A m \in Members :
            (/\ m.parent_class # None
             /\ \A o \in Members : IdOf(o) = IdOf(m) => o = m)
            => \A e \in Elems(declaration_edges) :
                   e.to = IdOf(m) => e.from = <<m.parent_class, Basename(m.file_path)>>

\* The first entity holding a reference, searching the functions, then the
\* methods, then the properties (<<>> if none does).
FirstContaining(r) ==
    LET cf == find_caller_function(all_functions, r.relativePath, r.line)
        cm == find_caller_method(all_methods, r.relativePath, r.line)
        cp == find_caller_property(all_properties, r.relativePath, r.line)
    IN IF cf # 0 THEN <<all_functions[cf]>>
       ELSE IF cm # 0 THEN <<all_methods[cm]>>
       ELSE IF cp # 0 THEN <<all_properties[cp]>>
       ELSE <<>>

\* One reference is resolved as C20 states it: the caller is the first
\* containing entity; no edge if there is none or if it is the queried entity
\* itself, otherwise the one edge caller -> queried entity (unless recorded).
C20_Step ==
    (pc = "refs" /\ ref_count' = ref_count + 1) =>
        LET func == all_callees[callee_idx]
            first == FirstContaining(ref')
        IN call_edges' =
              IF first = <<>> \/ first = <<func>> THEN call_edges
              ELSE AppendNew(call_edges, Edge(IdOf(first[1]), IdOf(func)))

\* C20 as stated: the caller of a reference is the first containing entity
\* in the order functions, methods, properties; at most one edge is recorded
\* per reference, and none when that entity is the queried entity itself.
C20_CallerIsFirstContainingEntity == [][C20_Step]_vars

\* C18 as stated: a describer constructed with auto_parse while a required
\* file is missing has run the parser before it loads; if the parser
\* succeeded, the required files exist afterwards and _load_graph_data loads
\* the combined graph that run wrote instead of raising FileNotFoundError.
C18_ParserMakesArtifacts ==
    (/\ auto_parse
     /\ ~(RequiredFiles \subseteq stale)
     /\ describer \in {"load", "loaded", "file_not_found"})
    => /\ pc \in {"parser_returned", "parser_raised"}
       /\ pc = "parser_returned" =>
             /\ artifacts_exist
             /\ describer # "file_not_found"
             /\ describer = "loaded" => loaded = <<result[1].combined>>

\* One reference is resolved as C21 states it: when the entity holding the
\* reference is another entity than the queried one (another id, which the
\* same name in another file gives), the edge holder -> queried entity is
\* among the call edges afterwards.
C21_Step ==
    (pc = "refs" /\ ref_count' = ref_count + 1) =>
        LET func == all_callees[callee_idx]
            first == FirstContaining(ref')
        IN (first # <<>> /\ IdOf(first[1]) # IdOf(func))
           => Edge(IdOf(first[1]), IdOf(func)) \in Elems(call_edges')

\* C21 as stated: a reference held by an entity other than the queried one
\* always yields the call edge, also when the two share their name and are
\* declared in different files.
C21_OtherEntityGivesEdge == [][C21_Step]_vars

\* The symbols of a forest in traversal (pre-)order, each with the list of
\* its ancestors, outermost first.
RECURSIVE WithAncestors(_, _)
WithAncestors(forest, anc) ==
    IF forest = <<>> THEN <<>>
    ELSE <<[sym |-> Head(forest), anc |-> anc]>>
         \o WithAncestors(Head(forest).children, Append(anc, Head(forest)))
         \o WithAncestors(Tail(forest), anc)

\* The name of the nearest enclosing Class symbol, None if there is none.
NearestClass(anc) ==
    LET cs == {i \in 1..Len(anc) : anc[i].kind = 5}
    IN IF cs = {} THEN None ELSE anc[MaxOf(cs)].name

\* The member entities of one kind a file yields, each with the nearest
\* enclosing class as parent_class.
MembersOfFile(f, kind) ==
    LET IsMember(x) == x.sym.kind = kind
        sel == SelectSeq(WithAncestors(f.symbols, <<>>), IsMember)
    IN [k \in 1..Len(sel) |->
          Info(sel[k].sym, KindName(sel[k].sym), f.path, NearestClass(sel[k].anc))]

RECURSIVE MembersOfRepo(_, _)
MembersOfRepo(files, kind) ==
    IF files = <<>> THEN <<>>
    ELSE (IF IsPythonFile(Basename(Head(files).path))
          THEN MembersOfFile(Head(files), kind) ELSE <<>>)
         \o MembersOfRepo(Tail(files), kind)

\* One edge nearest class -> member for each member that has an enclosing
\* class, in traversal order.
EdgesToMembers(members) ==
    LET HasClass(m) == m.parent_class # None
        sel == SelectSeq(members, HasClass)
    IN [k \in 1..Len(sel) |->
          Edge(NodeId(sel[k].parent_class, sel[k].file), IdOf(sel[k]))]

\* C22: every Method and Property entity carries the name of the nearest
\* enclosing Class symbol as parent_class (None without one, whatever other
\* symbols lie between), and the traversal of a file records exactly one
\* tentative edge nearest class -> member per member with an enclosing class
\* and none for the others; the build's edge lists start with them.
C22_ParentClassIsNearestClass ==
    StepADone =>
        /\ all_methods = MembersOfRepo(repo, 6)
        /\ all_properties = MembersOfRepo(repo, 7)
        /\ \A f \in Elems(repo) :
              IsPythonFile(Basename(f.path)) =>
                  LET t == process_symbols(f.symbols, None, f.path, EmptyLists)
                  IN /\ t.method_class_edges = EdgesToMembers(MembersOfFile(f, 6))
                     /\ t.property_class_edges = EdgesToMembers(MembersOfFile(f, 7))
        /\ Len(repo) = 1 =>
              /\ SubSeq(method_class_edges, 1, Len(EdgesToMembers(all_methods)))
                     = EdgesToMembers(all_methods)
              /\ SubSeq(property_class_edges, 1, Len(EdgesToMembers(all_properties)))
                     = EdgesToMembers(all_properties)

\* A member two classes deep was traversed and got its edge from the inner
\* class.
C22_Witness ==
    /\ StepADone
    /\ \E m \in Members :
          /\ m.parent_class = "b"
          /\ repo[1].symbols[1].kind = 5
          /\ repo[1].symbols[1].children[1].kind = 5
          /\ Edge(<<"b", "m.py">>, IdOf(m)) \in Elems(declaration_edges)

C26_ArtifactsAllOrNothing ==
    (MainReturned \/ MainRaised) =>
        \/ disk.call # <<>> /\ disk.declaration # <<>> /\ disk.combined # <<>>
        \/ disk.call = <<>> /\ disk.declaration = <<>> /\ disk.combined = <<>>

\* C27 as stated: once main has ended, by returning or by raising, no alarm
\* is pending.
C27_AlarmCancelledWhenBuildEnds ==
    (MainReturned \/ MainRaised) => alarm # "armed"

\* C30 as stated: outside setup_lsp, after it returned or raised,
\* JediServer.__init__ is the original constructor.
C30_ConstructorUnpatched == jedi_init = "original"

\* The order of the stages in every state: a stage is being attempted only
\* after the stages it depends on succeeded, and a later stage is true only
\* if the earlier ones are.
C24_Order ==
    /\ analyzer \in {"parse", "subprocess"} => stages.clone
    /\ analyzer \in {"artifacts", "visualize", "describe"} => stages.clone /\ stages.parse
    /\ stages.parse => stages.clone
    /\ (stages.visualize \/ stages.describe) => stages.parse
    /\ ~stages.clone => analyzer \in {"none", "clone", "returned", "exit_0", "exit_1"}

\* One step of analyze_repository: it returns from the clone or parse stage
\* with every later stage false, and the visualize stage is always followed
\* by the attempt of the describe stage.
C24_Step ==
    /\ (analyzer = "clone" /\ analyzer' = "returned") =>
          ~stages'.clone /\ ~stages'.parse /\ ~stages'.visualize /\ ~stages'.describe
    /\ (analyzer = "clone" /\ analyzer' # analyzer) => analyzer' \in {"parse", "returned"}
    /\ (analyzer \in {"parse", "subprocess", "artifacts"} /\ analyzer' = "returned") =>
          ~stages'.visualize /\ ~stages'.describe
    /\ (analyzer \in {"parse", "subprocess"} /\ analyzer' = "returned") => ~stages'.parse
    /\ (analyzer = "visualize" /\ analyzer' # analyzer) => analyzer' = "describe"
    /\ (analyzer = "describe" /\ analyzer' # analyzer) => analyzer' = "returned"

\* C24: the stages run in the order clone, parse, visualize, describe; parse
\* needs clone, visualize and describe need parse, a failed clone or parse
\* returns at once with the later stages false, a failed visualize is
\* followed by the attempt to describe; in the result parse implies clone
\* and visualize or describe implies parse.
C24_StagesInOrder == []C24_Order /\ [][C24_Step]_vars

\* The visualization failed and the describer was started all the same.
C24_Witness ==
    /\ analyzer = "returned"
    /\ stages = [clone |-> TRUE, parse |-> TRUE, visualize |-> FALSE, describe |-> TRUE]
    /\ errors = <<"Failed to build visualization">>

AllStages == stages.clone /\ stages.parse /\ stages.visualize /\ stages.describe

\* C25: in a returned result the errors list is empty exactly if all four
\* stages are true, so a run that failed or was cut short by an exception
\* has an error recorded; main exits with status 1 exactly if there is one.
C25_ErrorsIffStageMissing ==
    /\ analyzer \in {"returned", "exit_0", "exit_1"} => (errors = <<>> <=> AllStages)
    /\ analyzer = "exit_0" => AllStages
    /\ analyzer = "exit_1" => ~AllStages

\* A run cut short by an exception after the parse stage succeeded has
\* returned with its error, and one with all stages done has none.
C25_Witness ==
    /\ analyzer = "exit_1"
    /\ stages.parse
    /\ errors = <<"Unexpected error">>

\* C28 as stated: once run_parser has returned, True or False, the file
\* temp_parser.py does not exist.
C28_TempParserRemoved ==
    analyzer \notin {"none", "clone", "parse", "subprocess"} => ~temp_parser

\* The ids of a list of edges' targets (sources) for one source (target), in
\* the order of the list.
TargetsOf(id, edge_list) ==
    LET From(e) == e.from = id
        sel == SelectSeq(edge_list, From)
    IN [k \in 1..Len(sel) |-> sel[k].to]

SourcesOf(id, edge_list) ==
    LET To(e) == e.to = id
        sel == SelectSeq(edge_list, To)
    IN [k \in 1..Len(sel) |-> sel[k].from]

\* The reload of the `parse` command ends as C29 states it: the nodes are
\* those of the graph just loaded, with dependencies and dependents from its
\* edges only.
C29_Step ==
    (describer = "reloaded" /\ describer' = "ready") =>
        LET graph_data == loaded[1]
        IN /\ DOMAIN self_nodes' = {graph_data.nodes[i].id : i \in 1..Len(graph_data.nodes)}
           /\ \A id \in DOMAIN self_nodes' :
                 /\ self_nodes'[id].dependencies = TargetsOf(id, graph_data.edges)
                 /\ self_nodes'[id].dependents = SourcesOf(id, graph_data.edges)

\* C29 as stated: after the `parse` command succeeded and reloaded, the node
\* set of the describer is exactly that of the newly loaded combined graph
\* and the dependencies and dependents come from the new edges only.
C29_ReloadReplacesGraph == [][C29_Step]_vars
====
